---- MODULE Spec2Model ----
(***************************************************************************)
(* Model of the Hangar API client (pkg/hangar/client.go).                  *)
(*                                                                         *)
(* A Go string is a sequence of tokens.  A token is one character of a     *)
(* caller-supplied value ("a", "/", "?", "#", "%", " ", "&", a digit) or   *)
(* an atomic word of the program text ("projects", "limit", ...) that      *)
(* holds no reserved character.  URLs are built token by token as the      *)
(* code builds them with fmt.Sprintf, url.PathEscape and                   *)
(* url.Values.Encode.                                                      *)
(***************************************************************************)
EXTENDS Integers, Sequences, FiniteSets, TLC

\* ------------------------------------------------------------------------
\* Bounds
\* ------------------------------------------------------------------------
\* longest caller-supplied path value enumerated exhaustively
MaxLen == 1
\* most versions in one page of a version-list response
MaxVersions == 2
\* most chunks in a response body
MaxBody == 1

\* ------------------------------------------------------------------------
\* Program constants (client.go:17-24, 168, 172, 533, 590)
\* ------------------------------------------------------------------------
DefaultBaseURL == "https://hangar.papermc.io/api/v1"
\* DefaultTimeout, in seconds
DefaultTimeout == 30
DefaultLimit == 25
DownloadURLLimit == 100
DefaultPlatform == "PAPER"
\* another page path
IndexPagePath == <<"index">>
DefaultPagePath == <<"home">>
\* the path GetProjectMainPage asks for
MainPagePath == <<"home">>
\* another channel
SnapshotChannel == <<"Snapshot">>
ReleaseChannel == <<"Release">>

\* ------------------------------------------------------------------------
\* Strings
\* ------------------------------------------------------------------------
Alphabet == {"a", "/", "%", " "}

RECURSIVE StrsUpTo(_)
StrsUpTo(n) ==
    IF n = 0 THEN {<<>>}
    ELSE LET shorter == StrsUpTo(n - 1)
         IN  shorter \cup {Append(s, c) : s \in {t \in shorter : Len(t) = n - 1}, c \in Alphabet}

RECURSIVE Concat(_)
Concat(ss) == IF ss = <<>> THEN <<>> ELSE Head(ss) \o Concat(Tail(ss))

\* strconv.Itoa / fmt %d: decimal digits, most significant first
Digit(d) == CASE d = 0 -> "0" [] d = 1 -> "1" [] d = 2 -> "2" [] d = 3 -> "3"
              [] d = 4 -> "4" [] d = 5 -> "5" [] d = 6 -> "6" [] d = 7 -> "7"
              [] d = 8 -> "8" [] d = 9 -> "9"

RECURSIVE ItoaNat(_)
ItoaNat(n) == IF n < 10 THEN <<Digit(n)>> ELSE Append(ItoaNat(n \div 10), Digit(n % 10))

Itoa(n) == IF n < 0 THEN <<"-">> \o ItoaNat(0 - n) ELSE ItoaNat(n)

\* net/url shouldEscape for a path segment: "/", "?", "#", "%", " " are
\* escaped as %XX, everything else in the alphabet is left alone.
EscapeChar(c) ==
    CASE c = "/" -> <<"%", "2", "F">>
      [] c = "?" -> <<"%", "3", "F">>
      [] c = "#" -> <<"%", "2", "3">>
      [] c = "%" -> <<"%", "2", "5">>
      [] c = " " -> <<"%", "2", "0">>
      [] OTHER   -> <<c>>

\* no escaping at all
PathEscapeNone(s) == s

RECURSIVE PathEscape(_)
PathEscape(s) == IF s = <<>> THEN <<>> ELSE EscapeChar(Head(s)) \o PathEscape(Tail(s))

\* url.QueryEscape as used by url.Values.Encode: additionally "&", "=", "+"
\* and ":" are escaped and a space becomes "+".
QueryEscapeChar(c) ==
    CASE c = " " -> <<"+">>
      [] c = "&" -> <<"%", "2", "6">>
      [] c = "=" -> <<"%", "3", "D">>
      [] c = "+" -> <<"%", "2", "B">>
      [] c = ":" -> <<"%", "3", "A">>
      [] OTHER   -> EscapeChar(c)

RECURSIVE QueryEscape(_)
QueryEscape(s) == IF s = <<>> THEN <<>> ELSE QueryEscapeChar(Head(s)) \o QueryEscape(Tail(s))

\* url.Values.Encode: the keys present, in sorted order, as key=value joined
\* by "&", each value query-escaped.
KeyOrder == <<"category", "channel", "fromDate", "limit", "offset",
              "platform", "platformVersion", "query", "toDate">>

RECURSIVE EncodeFrom(_, _, _)
EncodeFrom(params, i, first) ==
    IF i > Len(KeyOrder) THEN <<>>
    ELSE IF KeyOrder[i] \in DOMAIN params
         THEN (IF first THEN <<>> ELSE <<"&">>)
              \o <<KeyOrder[i], "=">> \o QueryEscape(params[KeyOrder[i]])
              \o EncodeFrom(params, i + 1, FALSE)
         ELSE EncodeFrom(params, i + 1, first)

Encode(params) == EncodeFrom(params, 1, TRUE)

\* url.Values{} and params.Set(key, value)
NoParams == [k \in {} |-> <<>>]

Set(params, key, value) ==
    [k \in DOMAIN params \cup {key} |-> IF k = key THEN value ELSE params[k]]

\* the parameter set whatever its value
SetEvenIfEmpty(params, key, value) == Set(params, key, value)

\* "if value != "" { params.Set(key, value) }"
SetIfNonEmpty(params, key, value) ==
    IF value # <<>> THEN Set(params, key, value) ELSE params

\* the zero limit sent as it is
PageParamsNoDefault(opts) ==
    Set(Set(NoParams, "limit", Itoa(opts.Limit)), "offset", Itoa(opts.Offset))

\* the limit/offset block shared by every operation that takes ListOptions
PageParams(opts) ==
    Set(Set(NoParams, "limit",
            Itoa(IF opts.Limit = 0 THEN DefaultLimit ELSE opts.Limit)),
        "offset", Itoa(opts.Offset))

\* fmt.Sprintf("%s?%s", endpoint, params.Encode())
WithQuery(endpoint, params) == endpoint \o <<"?">> \o Encode(params)

\* "if len(params) > 0 { endpoint?query } else { endpoint }"
WithOptionalQuery(endpoint, params) ==
    IF DOMAIN params # {} THEN WithQuery(endpoint, params) ELSE endpoint

\* ------------------------------------------------------------------------
\* Errors: the chain of messages (outermost first) with what the innermost
\* error embeds: the HTTP status and body text, or the transport cause.
\* ------------------------------------------------------------------------
NoErr == [chain |-> <<>>, status |-> 0, body |-> <<>>, cause |-> ""]

New(msg) == [NoErr EXCEPT !.chain = <<msg>>]

Newf(msg, arg) == [NoErr EXCEPT !.chain = <<msg>>, !.body = arg]

Wrap(e, msg) == [e EXCEPT !.chain = <<msg>> \o @]

\* ------------------------------------------------------------------------
\* What a method decides before it touches the network: a validation
\* error, or the URL to request and the message its errors are wrapped in.
\* ------------------------------------------------------------------------
Reject(msg) == [ok |-> FALSE, msg |-> msg, url |-> <<>>]

Request(url, wrap) == [ok |-> TRUE, msg |-> wrap, url |-> url]

\* ------------------------------------------------------------------------
\* The methods up to their doRequest call
\* ------------------------------------------------------------------------
\* the slug check left out
GetProjectPlanUnchecked(base, slug) ==
    Request(<<base, "/", "projects", "/">> \o PathEscape(slug), "failed to get project")

GetProjectPlan(base, slug) ==
    IF slug = <<>> THEN Reject("slug cannot be empty")
    ELSE Request(<<base, "/", "projects", "/">> \o PathEscape(slug),
                 "failed to get project")

ListProjectsPlan(base, opts) ==
    Request(WithQuery(<<base, "/", "projects">>,
                      SetIfNonEmpty(PageParams(opts), "category", opts.Category)),
            "failed to list projects")

ListVersionsPlan(base, owner, slug, opts) ==
    IF owner = <<>> THEN Reject("owner cannot be empty")
    ELSE IF slug = <<>> THEN Reject("slug cannot be empty")
    ELSE Request(WithQuery(<<base, "/", "projects", "/">> \o PathEscape(owner)
                           \o <<"/">> \o PathEscape(slug) \o <<"/", "versions">>,
                           PageParams(opts)),
                 "failed to list versions")

\* GetDownloadURL up to the request ListVersions makes for it
GetDownloadURLPlan(base, owner, slug, version) ==
    IF owner = <<>> THEN Reject("owner cannot be empty")
    ELSE IF slug = <<>> THEN Reject("slug cannot be empty")
    ELSE IF version = <<>> THEN Reject("version cannot be empty")
    ELSE ListVersionsPlan(base, owner, slug,
                          [Limit |-> DownloadURLLimit, Offset |-> 0, Category |-> <<>>])

ListUsersPlan(base, query, opts) ==
    Request(WithQuery(<<base, "/", "users">>,
                      SetIfNonEmpty(PageParams(opts), "query", query)),
            "failed to list users")

GetUserPlan(base, username) ==
    IF username = <<>> THEN Reject("username cannot be empty")
    ELSE Request(<<base, "/", "users", "/">> \o PathEscape(username),
                 "failed to get user")

GetUserStarredPlan(base, username, opts) ==
    IF username = <<>> THEN Reject("username cannot be empty")
    ELSE Request(WithQuery(<<base, "/", "users", "/">> \o PathEscape(username)
                           \o <<"/", "starred">>, PageParams(opts)),
                 "failed to get starred projects")

GetUserWatchingPlan(base, username, opts) ==
    IF username = <<>> THEN Reject("username cannot be empty")
    ELSE Request(WithQuery(<<base, "/", "users", "/">> \o PathEscape(username)
                           \o <<"/", "watching">>, PageParams(opts)),
                 "failed to get watching projects")

GetUserPinnedPlan(base, username) ==
    IF username = <<>> THEN Reject("username cannot be empty")
    ELSE Request(<<base, "/", "users", "/">> \o PathEscape(username)
                 \o <<"/", "pinned">>,
                 "failed to get pinned projects")

ListAuthorsPlan(base, opts) ==
    Request(WithQuery(<<base, "/", "authors">>, PageParams(opts)),
            "failed to list authors")

ListStaffPlan(base) ==
    Request(<<base, "/", "staff">>, "failed to list staff")

GetVersionByIDPlan(base, versionID) ==
    IF versionID <= 0 THEN Reject("versionID must be positive")
    ELSE Request(<<base, "/", "versions", "/">> \o Itoa(versionID),
                 "failed to get version")

GetVersionByHashPlan(base, hash) ==
    IF hash = <<>> THEN Reject("hash cannot be empty")
    ELSE Request(<<base, "/", "versions", "/", "find", "/">> \o PathEscape(hash),
                 "failed to find version by hash")

GetProjectMembersPlan(base, slug, opts) ==
    IF slug = <<>> THEN Reject("slug cannot be empty")
    ELSE Request(WithQuery(<<base, "/", "projects", "/">> \o PathEscape(slug)
                           \o <<"/", "members">>, PageParams(opts)),
                 "failed to get project members")

GetProjectStargazersPlan(base, slug, opts) ==
    IF slug = <<>> THEN Reject("slug cannot be empty")
    ELSE Request(WithQuery(<<base, "/", "projects", "/">> \o PathEscape(slug)
                           \o <<"/", "stargazers">>, PageParams(opts)),
                 "failed to get project stargazers")

GetProjectWatchersPlan(base, slug, opts) ==
    IF slug = <<>> THEN Reject("slug cannot be empty")
    ELSE Request(WithQuery(<<base, "/", "projects", "/">> \o PathEscape(slug)
                           \o <<"/", "watchers">>, PageParams(opts)),
                 "failed to get project watchers")

\* GetProjectStats that turns a date into a timestamp of that day
GetProjectStatsPlanExpandingDates(base, slug, fromDate, toDate) ==
    IF slug = <<>> THEN Reject("slug cannot be empty")
    ELSE Request(WithOptionalQuery(
                     <<base, "/", "projects", "/">> \o PathEscape(slug) \o <<"/", "stats">>,
                     SetIfNonEmpty(SetIfNonEmpty(NoParams, "fromDate",
                         IF fromDate = <<>> THEN <<>>
                         ELSE fromDate \o <<"T00", ":", "00", ":", "00Z">>),
                         "toDate",
                         IF toDate = <<>> THEN <<>>
                         ELSE toDate \o <<"T23", ":", "59", ":", "59Z">>)),
                 "failed to get project stats")

GetProjectStatsPlan(base, slug, fromDate, toDate) ==
    IF slug = <<>> THEN Reject("slug cannot be empty")
    ELSE Request(WithOptionalQuery(
                     <<base, "/", "projects", "/">> \o PathEscape(slug) \o <<"/", "stats">>,
                     SetIfNonEmpty(SetIfNonEmpty(NoParams, "fromDate", fromDate),
                                   "toDate", toDate)),
                 "failed to get project stats")

GetVersionStatsPlan(base, slug, version, fromDate, toDate) ==
    IF slug = <<>> THEN Reject("slug cannot be empty")
    ELSE IF version = <<>> THEN Reject("version cannot be empty")
    ELSE Request(WithOptionalQuery(
                     <<base, "/", "projects", "/">> \o PathEscape(slug)
                     \o <<"/", "versions", "/">> \o PathEscape(version) \o <<"/", "stats">>,
                     SetIfNonEmpty(SetIfNonEmpty(NoParams, "fromDate", fromDate),
                                   "toDate", toDate)),
                 "failed to get version stats")

GetProjectPagePlan(base, slug, pagePath) ==
    IF slug = <<>> THEN Reject("slug cannot be empty")
    ELSE Request(<<base, "/", "projects", "/">> \o PathEscape(slug) \o <<"/", "pages", "/">>
                 \o PathEscape(IF pagePath = <<>> THEN DefaultPagePath ELSE pagePath),
                 "failed to get project page")

GetProjectMainPagePlan(base, slug) == GetProjectPagePlan(base, slug, MainPagePath)

GetLatestVersionPlan(base, slug, channel, platform, minecraftVersion) ==
    IF slug = <<>> THEN Reject("slug cannot be empty")
    ELSE Request(WithOptionalQuery(
                     <<base, "/", "projects", "/">> \o PathEscape(slug) \o <<"/", "latest">>,
                     SetIfNonEmpty(SetIfNonEmpty(SetIfNonEmpty(NoParams,
                         "channel", channel), "platform", platform),
                         "platformVersion", minecraftVersion)),
                 "failed to get latest version")

GetLatestReleaseVersionPlan(base, slug) ==
    GetLatestVersionPlan(base, slug, ReleaseChannel, <<>>, <<>>)

\* ------------------------------------------------------------------------
\* GetDownloadURL after ListVersions returned: the scan of versions.Result
\* ------------------------------------------------------------------------
Found(u) == [str |-> u, err |-> NoErr]

NotFound(e) == [str |-> "", err |-> e]

\* the fallback order swapped: the external URL first
PickURLExternalFirst(downloadInfo, platform) ==
    IF downloadInfo.ExternalURL # "" THEN Found(downloadInfo.ExternalURL)
    ELSE IF downloadInfo.DownloadURL # "" THEN Found(downloadInfo.DownloadURL)
    ELSE NotFound(Newf("no download URL found for platform", <<platform>>))

PickURL(downloadInfo, platform) ==
    IF downloadInfo.DownloadURL # "" THEN Found(downloadInfo.DownloadURL)
    ELSE IF downloadInfo.ExternalURL # "" THEN Found(downloadInfo.ExternalURL)
    ELSE NotFound(Newf("no download URL found for platform", <<platform>>))

\* a scan that passes over a matching version without a usable URL
RECURSIVE ScanVersionsSkipping(_, _, _)
ScanVersionsSkipping(versions, version, platform) ==
    IF versions = <<>> THEN NotFound(Newf("version not found", version))
    ELSE LET v == Head(versions)
         IN  IF /\ v.Name = version
                /\ platform \in DOMAIN v.Downloads
                /\ PickURL(v.Downloads[platform], platform).err = NoErr
             THEN PickURL(v.Downloads[platform], platform)
             ELSE ScanVersionsSkipping(Tail(versions), version, platform)

RECURSIVE ScanVersions(_, _, _)
ScanVersions(versions, version, platform) ==
    IF versions = <<>> THEN NotFound(Newf("version not found", version))
    ELSE LET v == Head(versions)
         IN  IF v.Name = version
             THEN IF platform \in DOMAIN v.Downloads
                  THEN PickURL(v.Downloads[platform], platform)
                  ELSE NotFound(Newf("no download URL found for platform", <<platform>>))
             ELSE ScanVersions(Tail(versions), version, platform)

\* "if platform == "" { platform = "PAPER" }"
EffectivePlatform(platform) == IF platform = "" THEN DefaultPlatform ELSE platform

\* ------------------------------------------------------------------------
\* doRequest
\* ------------------------------------------------------------------------
\* the Authorization header set whether or not a token is configured
NewRequestAlwaysAuth(url, tok) ==
    [method |-> "GET",
     url    |-> url,
     header |-> [h \in {"Accept", "User-Agent", "Authorization"} |->
                  CASE h = "Accept" -> <<"application/json">>
                    [] h = "User-Agent" -> <<"go-hangar/1.0">>
                    [] h = "Authorization" -> <<"Bearer ", tok>>]]

\* the request handed to httpClient.Do
NewRequest(url, tok) ==
    [method |-> "GET",
     url    |-> url,
     header |-> [h \in {"Accept", "User-Agent"}
                       \cup (IF tok # "" THEN {"Authorization"} ELSE {}) |->
                  CASE h = "Accept" -> <<"application/json">>
                    [] h = "User-Agent" -> <<"go-hangar/1.0">>
                    [] h = "Authorization" -> <<"Bearer ", tok>>]]

\* a second attempt after the first
AttemptsTwice(req) == <<req, req>>

\* the calls of httpClient.Do that doRequest makes for one request: one
Attempts(req) == <<req>>

\* httpClient.Do returned an error
TransportError(cause) == Wrap([NoErr EXCEPT !.cause = cause], "HTTP request failed")

\* a decoder that accepts any body that was read to the end
DecodesAnything(r) == r.nread = Len(r.body)

\* json.NewDecoder(resp.Body).Decode(result) succeeds iff the whole body was
\* read and it is a value of the result type
Decodes(r) == r.valid /\ r.nread = Len(r.body)

\* the status test off by one: 300 passes for a success
ResponseErrorUpTo300(r) ==
    IF r.status < 200 \/ r.status > 300
    THEN [chain  |-> <<"API request failed with status">>,
          status |-> r.status,
          body   |-> SubSeq(r.body, 1, r.nread),
          cause  |-> ""]
    ELSE IF Decodes(r) THEN NoErr
    ELSE Wrap([NoErr EXCEPT !.cause =
                   IF r.nread < Len(r.body) THEN r.readErr
                   ELSE IF r.body = <<>> THEN "EOF" ELSE "invalid character"],
              "failed to decode response")

\* the error doRequest returns for a response (NoErr when it decoded)
ResponseError(r) ==
    IF r.status < 200 \/ r.status >= 300
    THEN [chain  |-> <<"API request failed with status">>,
          status |-> r.status,
          body   |-> SubSeq(r.body, 1, r.nread),
          cause  |-> ""]
    ELSE IF Decodes(r) THEN NoErr
    ELSE Wrap([NoErr EXCEPT !.cause =
                   IF r.nread < Len(r.body) THEN r.readErr
                   ELSE IF r.body = <<>> THEN "EOF" ELSE "invalid character"],
              "failed to decode response")

\* ------------------------------------------------------------------------
\* State
\* ------------------------------------------------------------------------
VARIABLES
    cfg,        \* the Config NewClient was (or will be) called with
    baseURL,    \* Client.baseURL
    token,      \* Client.token
    httpClient, \* Client.httpClient
    callers,    \* the calls of concurrent callers sharing the client
    pc,         \* "idle", "inflight" (blocked in httpClient.Do), "done"
    call,       \* the method being called and its arguments
    ctxErr,     \* ctx.Err() of the caller's context: "" while it is live
    requests,   \* the requests handed to httpClient.Do during this call
    resp,       \* the response httpClient.Do returned, if any
    result,     \* the method's first return value
    err,        \* the method's error return value (NoErr is nil)
    cli         \* the hangar command-line process, when one runs

vars == <<cfg, baseURL, token, httpClient, callers, pc, call, ctxErr, requests, resp,
          result, err, cli>>

\* no command-line process: the client is used as a library
NoCLI == [phase |-> "none"]

\* the fields of Client
client == <<baseURL, token, httpClient>>

\* ------------------------------------------------------------------------
\* Inputs
\* ------------------------------------------------------------------------
Tokens == {"", "test-token-12345"}

\* values with several characters that every path argument is tried with
Curated == {<<"a", "/", "a">>, <<"%", "2", "F">>, <<"?", "#">>}

Segs == StrsUpTo(MaxLen) \cup Curated

Plain == {<<>>, <<"a">>, <<"a", "/", "a">>}

\* the pairs of path arguments tried together
SegPairs == {p \in Segs \X Segs : p[1] \in Plain \/ p[2] \in Plain}

Limits == {-1, 0, 100}
Offsets == {0, 12}
Categories == {<<>>, <<"gameplay">>, <<"a", " ", "&", "b">>}
Queries == {<<>>, <<"kenny">>, <<"a", "=", "b">>}
\* the (fromDate, toDate) pairs tried: none, either one alone, both
DateRanges ==
    {<<<<>>, <<>>>>, <<<<"2024-01-01">>, <<>>>>, <<<<>>, <<"2024-01-01">>>>,
     <<<<"2024-01-01">>, <<"2024-01-02T10", ":", "30Z">>>>}
Channels == {<<>>, <<"Release">>, <<"Beta">>}
PlatformFilters == {<<>>, <<"PAPER">>}
MinecraftVersions == {<<>>, <<"1.20">>}
VersionIDs == {-1, 0, 1, 42}
Platforms == {"PAPER", "WATERFALL"}
VersionNames == {<<"a">>, <<"2.0.1">>}
Owners == {<<>>, <<"a">>}

\* ListOptions values: every limit and every offset, not every pair
PlainOpts ==
    {o \in [Limit : Limits, Offset : Offsets, Category : {<<>>}] :
        o.Limit = 0 \/ o.Offset = 0}
ProjectOpts ==
    {[o EXCEPT !.Category = c] : o \in PlainOpts, c \in Categories}

CtxErrs == {"context canceled", "context deadline exceeded"}

NoCall ==
    [method |-> "", owner |-> <<>>, slug |-> <<>>, version |-> <<>>, platform |-> "",
     username |-> <<>>, hash |-> <<>>, pagePath |-> <<>>, versionID |-> 0,
     hasOpts |-> FALSE, opts |-> [Limit |-> 0, Offset |-> 0, Category |-> <<>>],
     query |-> <<>>, fromDate |-> <<>>, toDate |-> <<>>,
     channel |-> <<>>, platformFilter |-> <<>>, minecraftVersion |-> <<>>]

\* ------------------------------------------------------------------------
\* Responses
\* ------------------------------------------------------------------------
\* final statuses (net/http consumes 1xx informational responses itself)
Statuses == {200, 299, 300, 404}

Bodies == {SubSeq(<<"c1", "c2", "c3", "c4">>, 1, n) : n \in 0..MaxBody}

\* why reading the body stopped early
ReadErrs == {"connection reset", "context canceled"}

EmptyPayload == [count |-> 0, versions |-> <<>>]

DownloadInfos == [DownloadURL : {"", "hosted"}, ExternalURL : {"", "external"}]

\* per-platform download maps: none, PAPER alone (any DownloadInfo), or
\* WATERFALL alone (hosted)
DownloadMaps ==
    {[p \in {} |-> <<>>]}
    \cup {[p \in {"PAPER"} |-> d] : d \in DownloadInfos}
    \cup {[p \in {"WATERFALL"} |-> [DownloadURL |-> "hosted-w", ExternalURL |-> ""]]}

VersionEntries == [Name : VersionNames, Downloads : DownloadMaps]

RECURSIVE VersionLists(_)
VersionLists(n) ==
    IF n = 0 THEN {<<>>}
    ELSE LET shorter == VersionLists(n - 1)
         IN  shorter \cup {Append(l, v) : l \in {t \in shorter : Len(t) = n - 1},
                                          v \in VersionEntries}

\* a page of versions; count is the project's total, which may exceed the page
VersionPages ==
    UNION {{[count |-> c, versions |-> l] : c \in {Len(l), 150}} :
              l \in VersionLists(MaxVersions)}

\* the operations whose result is a {pagination, result} list
PaginatedMethods ==
    {"ListProjects", "ListVersions", "ListUsers", "GetUserStarred", "GetUserWatching",
     "GetUserPinned", "ListAuthors", "GetProjectMembers", "GetProjectStargazers",
     "GetProjectWatchers"}

\* the operations whose result is one Version
VersionMethods ==
    {"GetVersionByID", "GetVersionByHash", "GetLatestVersion", "GetLatestReleaseVersion"}

\* JSON list envelopes a server sends: the pagination it reports is its own
\* (not the limit and offset of the request) and the items come in its order
ListPages ==
    {[pagination |-> [count |-> 0, limit |-> 25, offset |-> 0], result |-> <<>>]}
    \cup {[pagination |-> [count |-> 150, limit |-> 10, offset |-> 5], result |-> items] :
             items \in {<<"x", "y">>, <<"y", "x">>}}

\* JSON versions a server sends: no download entry, or one for PAPER with
\* any combination of hosted and external URL
WireVersions ==
    {[name |-> <<"2.0.1">>, downloads |-> [p \in {} |-> <<>>]]}
    \cup {[name |-> <<"2.0.1">>,
           downloads |-> [p \in {"PAPER"} |-> [downloadUrl |-> d, externalUrl |-> e]]] :
             d \in {"", "hosted"}, e \in {"", "external"}}

\* what a well-formed body can denote for a method
\* the JSON body "null"
NullPayload == [null |-> TRUE]

Payloads(method) ==
    IF method = "GetDownloadURL" THEN VersionPages
    ELSE IF method \in PaginatedMethods THEN ListPages
    ELSE IF method \in VersionMethods THEN WireVersions
    ELSE {EmptyPayload, NullPayload}

Is2xx(status) == status >= 200 /\ status < 300

\* the payload of the responses whose body fails to close
ClosePayload(method) ==
    IF method \in PaginatedMethods
    THEN [pagination |-> [count |-> 0, limit |-> 25, offset |-> 0], result |-> <<>>]
    ELSE IF method \in VersionMethods
    THEN [name |-> <<"2.0.1">>, downloads |-> [p \in {} |-> <<>>]]
    ELSE EmptyPayload

\* responses whose resp.Body.Close() returns an error: a 200 that decodes and
\* a 404, both read to the end
CloseFailures(method) ==
    {[status |-> st, body |-> b, nread |-> Len(b), readErr |-> "", valid |-> TRUE,
      payload |-> IF st = 200 THEN ClosePayload(method) ELSE EmptyPayload,
      closeErr |-> "close failed"] :
        st \in {200, 404}, b \in {c \in Bodies : Len(c) = MaxBody}}

\* the responses httpClient.Do can return: a status, the body sent, how much
\* of it can be read before the read fails (all of it when readErr is ""),
\* whether the body is a value of the method's result type, that value, and
\* the error of closing the body ("" when it closes)
Responses(method) ==
    {r \in [status : Statuses, body : Bodies, nread : 0..MaxBody,
            readErr : ReadErrs \cup {""}, valid : BOOLEAN, payload : {EmptyPayload},
            closeErr : {""}] :
        /\ r.nread <= Len(r.body)
        /\ (r.nread = Len(r.body)) <=> (r.readErr = "")
        /\ r.valid => r.body # <<>>
        /\ ~(r.valid /\ Is2xx(r.status) /\ r.readErr = "" /\ Len(r.body) = MaxBody)}
    \cup
    {[status |-> s, body |-> b, nread |-> Len(b), readErr |-> "", valid |-> TRUE,
      payload |-> p, closeErr |-> ""] :
        s \in {t \in Statuses : Is2xx(t)}, b \in {c \in Bodies : Len(c) = MaxBody},
        p \in Payloads(method)}
    \cup CloseFailures(method)

NoResp ==
    [status |-> 0, body |-> <<>>, nread |-> 0, readErr |-> "", valid |-> FALSE,
     payload |-> EmptyPayload, closeErr |-> ""]

\* ------------------------------------------------------------------------
\* Results
\* ------------------------------------------------------------------------
\* nil (and "" for GetDownloadURL)
NilResult == [nil |-> TRUE, str |-> "", payload |-> EmptyPayload]

\* the decoded value (&project, &list, stats, ...)
Value(payload) == [nil |-> FALSE, str |-> "", payload |-> payload]

\* a list decoded with its items in the opposite order
DecodeListReversed(json) ==
    [Pagination |-> [Count  |-> json.pagination.count,
                     Limit  |-> json.pagination.limit,
                     Offset |-> json.pagination.offset],
     Result     |-> [i \in DOMAIN json.result |->
                        json.result[Len(json.result) + 1 - i]]]

\* encoding/json into ProjectsList, VersionsList, UserList, ...: the fields
\* named by the struct tags, the array in its order
DecodeList(json) ==
    [Pagination |-> [Count  |-> json.pagination.count,
                     Limit  |-> json.pagination.limit,
                     Offset |-> json.pagination.offset],
     Result     |-> json.result]

\* a Version decoded so that a DownloadInfo never has both URLs: the
\* external one is dropped when there is a hosted one
DecodeVersionOneURL(json) ==
    [Name      |-> json.name,
     Downloads |-> [p \in DOMAIN json.downloads |->
                      [DownloadURL |-> json.downloads[p].downloadUrl,
                       ExternalURL |-> IF json.downloads[p].downloadUrl # "" THEN ""
                                       ELSE json.downloads[p].externalUrl]]]

\* encoding/json into Version: name, and per platform the DownloadInfo with
\* externalUrl and downloadUrl as they are in the body
DecodeVersion(json) ==
    [Name      |-> json.name,
     Downloads |-> [p \in DOMAIN json.downloads |->
                      [DownloadURL |-> json.downloads[p].downloadUrl,
                       ExternalURL |-> json.downloads[p].externalUrl]]]

\* the value json.Decode leaves in the method's result variable
Decoded(method, payload) ==
    IF payload = EmptyPayload THEN payload
    ELSE IF payload = NullPayload THEN EmptyPayload
    ELSE IF method \in PaginatedMethods THEN DecodeList(payload)
    ELSE IF method \in VersionMethods THEN DecodeVersion(payload)
    ELSE payload

\* a download URL
StrResult(u) == [nil |-> FALSE, str |-> u, payload |-> EmptyPayload]

PlanOf(base, c) ==
    CASE c.method = "GetProject" -> GetProjectPlan(base, c.slug)
      [] c.method = "ListProjects" -> ListProjectsPlan(base, c.opts)
      [] c.method = "ListVersions" -> ListVersionsPlan(base, c.owner, c.slug, c.opts)
      [] c.method = "GetDownloadURL" -> GetDownloadURLPlan(base, c.owner, c.slug, c.version)
      [] c.method = "ListUsers" -> ListUsersPlan(base, c.query, c.opts)
      [] c.method = "GetUser" -> GetUserPlan(base, c.username)
      [] c.method = "GetUserStarred" -> GetUserStarredPlan(base, c.username, c.opts)
      [] c.method = "GetUserWatching" -> GetUserWatchingPlan(base, c.username, c.opts)
      [] c.method = "GetUserPinned" -> GetUserPinnedPlan(base, c.username)
      [] c.method = "ListAuthors" -> ListAuthorsPlan(base, c.opts)
      [] c.method = "ListStaff" -> ListStaffPlan(base)
      [] c.method = "GetVersionByID" -> GetVersionByIDPlan(base, c.versionID)
      [] c.method = "GetVersionByHash" -> GetVersionByHashPlan(base, c.hash)
      [] c.method = "GetProjectMembers" -> GetProjectMembersPlan(base, c.slug, c.opts)
      [] c.method = "GetProjectStargazers" -> GetProjectStargazersPlan(base, c.slug, c.opts)
      [] c.method = "GetProjectWatchers" -> GetProjectWatchersPlan(base, c.slug, c.opts)
      [] c.method = "GetProjectStats" ->
             GetProjectStatsPlan(base, c.slug, c.fromDate, c.toDate)
      [] c.method = "GetVersionStats" ->
             GetVersionStatsPlan(base, c.slug, c.version, c.fromDate, c.toDate)
      [] c.method = "GetProjectPage" -> GetProjectPagePlan(base, c.slug, c.pagePath)
      [] c.method = "GetProjectMainPage" -> GetProjectMainPagePlan(base, c.slug)
      [] c.method = "GetLatestVersion" ->
             GetLatestVersionPlan(base, c.slug, c.channel, c.platformFilter,
                                  c.minecraftVersion)
      [] c.method = "GetLatestReleaseVersion" -> GetLatestReleaseVersionPlan(base, c.slug)

\* what the method returns once doRequest has returned doErr (NoErr: the
\* body decoded to payload)
\* the methods whose result is a map or a slice, not a pointer to a struct
NilableMethods == {"ListStaff", "GetProjectStats", "GetVersionStats"}

\* what "return x, nil" hands over after doRequest decoded payload into x:
\* "null" leaves a map or a slice nil and a struct at its zero value
Returned(method, payload) ==
    IF payload = NullPayload /\ method \in NilableMethods THEN NilResult
    ELSE Value(Decoded(method, payload))

MethodReturn(c, wrap, doErr, payload) ==
    IF c.method = "GetDownloadURL"
    THEN IF doErr # NoErr
         THEN [result |-> NilResult,
               err    |-> Wrap(Wrap(doErr, wrap), "failed to list versions")]
         ELSE LET f == ScanVersions(payload.versions, c.version,
                                    EffectivePlatform(c.platform))
              IN  [result |-> IF f.err = NoErr THEN StrResult(f.str) ELSE NilResult,
                   err    |-> f.err]
    ELSE IF doErr # NoErr
         THEN [result |-> NilResult, err |-> Wrap(doErr, wrap)]
         ELSE [result |-> Returned(c.method, payload), err |-> NoErr]

\* ------------------------------------------------------------------------
\* Construction
\* ------------------------------------------------------------------------
BaseURLs == {"", "http://127.0.0.1:8080"}

\* Config.Timeout, in seconds (0 is the zero value)
Timeouts == {0, 1, 5, 60}

\* Config.HTTPClient: nil, or the caller's own *http.Client with its Timeout
\* (0 is http.Client's "no timeout")
NoHTTPClient == [nil |-> TRUE, Timeout |-> 0]
HTTPClients == {NoHTTPClient} \cup [nil : {FALSE}, Timeout : {0, 7, 30}]

Configs == [BaseURL : BaseURLs, Token : Tokens, Timeout : Timeouts,
            HTTPClient : HTTPClients]

\* the configurations the calls are explored with: the client's own HTTP
\* client, default timeout
CallConfigs == {c \in Configs : c.Timeout = 0 /\ c.HTTPClient = NoHTTPClient}

\* NewClient that keeps the zero values of the Config
NewClientNoDefaults(c) ==
    [baseURL    |-> c.BaseURL,
     token      |-> c.Token,
     httpClient |-> IF c.HTTPClient.nil
                    THEN [nil |-> FALSE, Timeout |-> c.Timeout]
                    ELSE c.HTTPClient]

NewClient(c) ==
    [baseURL    |-> IF c.BaseURL = "" THEN DefaultBaseURL ELSE c.BaseURL,
     token      |-> c.Token,
     httpClient |-> IF c.HTTPClient.nil
                    THEN [nil |-> FALSE,
                          Timeout |-> IF c.Timeout = 0 THEN DefaultTimeout
                                      ELSE c.Timeout]
                    ELSE c.HTTPClient]

\* a caller that is not inside a call
IdleCaller ==
    [pc |-> "idle", call |-> NoCall, ctxErr |-> "", requests |-> <<>>,
     resp |-> NoResp, result |-> NilResult, err |-> NoErr]

Callers == {1, 2}

Init ==
    /\ cfg \in CallConfigs
    /\ baseURL = NewClient(cfg).baseURL
    /\ token = NewClient(cfg).token
    /\ httpClient = NewClient(cfg).httpClient
    /\ callers = [i \in Callers |-> IdleCaller]
    /\ pc = "idle"
    /\ call = NoCall
    /\ ctxErr = ""
    /\ requests = <<>>
    /\ resp = NoResp
    /\ result = NilResult
    /\ err = NoErr
    /\ cli = NoCLI

\* ------------------------------------------------------------------------
\* A call up to the point where it blocks in httpClient.Do, or returns a
\* validation error.  The caller's context may already be done.
\* ------------------------------------------------------------------------
Start(c) ==
    /\ pc = "idle"
    /\ call' = c
    /\ \E e \in {""} \cup CtxErrs : ctxErr' = e
    /\ resp' = NoResp
    /\ result' = NilResult
    /\ LET plan == PlanOf(baseURL, c)
       IN  IF plan.ok
           THEN /\ requests' = Attempts(NewRequest(plan.url, token))
                /\ err' = NoErr
                /\ pc' = "inflight"
           ELSE /\ requests' = <<>>
                /\ err' = New(plan.msg)
                /\ pc' = "done"
    /\ UNCHANGED <<cli, cfg, baseURL, token, httpClient, callers>>

WithOpts(c, opts) == [c EXCEPT !.hasOpts = TRUE, !.opts = opts]

GetProject ==
    /\ pc = "idle"
    /\ \E slug \in Segs : Start([NoCall EXCEPT !.method = "GetProject", !.slug = slug])

ListProjects ==
    /\ pc = "idle"
    /\ \E opts \in ProjectOpts :
        Start(WithOpts([NoCall EXCEPT !.method = "ListProjects"], opts))

ListVersions ==
    /\ pc = "idle"
    /\ \E p \in SegPairs, opts \in PlainOpts :
        Start(WithOpts([NoCall EXCEPT !.method = "ListVersions",
                                      !.owner = p[1], !.slug = p[2]], opts))

GetDownloadURL ==
    /\ pc = "idle"
    /\ \E owner \in Owners, slug \in Owners, version \in VersionNames \cup {<<>>},
       platform \in Platforms \cup {""} :
        Start([NoCall EXCEPT !.method = "GetDownloadURL", !.owner = owner,
                             !.slug = slug, !.version = version,
                             !.platform = platform])

ListUsers ==
    /\ pc = "idle"
    /\ \E query \in Queries, opts \in PlainOpts :
        Start(WithOpts([NoCall EXCEPT !.method = "ListUsers", !.query = query], opts))

GetUser ==
    /\ pc = "idle"
    /\ \E username \in Segs :
        Start([NoCall EXCEPT !.method = "GetUser", !.username = username])

GetUserStarred ==
    /\ pc = "idle"
    /\ \E username \in Segs, opts \in PlainOpts :
        Start(WithOpts([NoCall EXCEPT !.method = "GetUserStarred",
                                      !.username = username], opts))

GetUserWatching ==
    /\ pc = "idle"
    /\ \E username \in Segs, opts \in PlainOpts :
        Start(WithOpts([NoCall EXCEPT !.method = "GetUserWatching",
                                      !.username = username], opts))

GetUserPinned ==
    /\ pc = "idle"
    /\ \E username \in Segs :
        Start([NoCall EXCEPT !.method = "GetUserPinned", !.username = username])

ListAuthors ==
    /\ pc = "idle"
    /\ \E opts \in PlainOpts :
        Start(WithOpts([NoCall EXCEPT !.method = "ListAuthors"], opts))

ListStaff == Start([NoCall EXCEPT !.method = "ListStaff"])

GetVersionByID ==
    /\ pc = "idle"
    /\ \E versionID \in VersionIDs :
        Start([NoCall EXCEPT !.method = "GetVersionByID", !.versionID = versionID])

GetVersionByHash ==
    /\ pc = "idle"
    /\ \E hash \in Segs :
        Start([NoCall EXCEPT !.method = "GetVersionByHash", !.hash = hash])

GetProjectMembers ==
    /\ pc = "idle"
    /\ \E slug \in Segs, opts \in PlainOpts :
        Start(WithOpts([NoCall EXCEPT !.method = "GetProjectMembers",
                                      !.slug = slug], opts))

GetProjectStargazers ==
    /\ pc = "idle"
    /\ \E slug \in Segs, opts \in PlainOpts :
        Start(WithOpts([NoCall EXCEPT !.method = "GetProjectStargazers",
                                      !.slug = slug], opts))

GetProjectWatchers ==
    /\ pc = "idle"
    /\ \E slug \in Segs, opts \in PlainOpts :
        Start(WithOpts([NoCall EXCEPT !.method = "GetProjectWatchers",
                                      !.slug = slug], opts))

GetProjectStats ==
    /\ pc = "idle"
    /\ \E slug \in Segs, d \in DateRanges :
        Start([NoCall EXCEPT !.method = "GetProjectStats", !.slug = slug,
                             !.fromDate = d[1], !.toDate = d[2]])

GetVersionStats ==
    /\ pc = "idle"
    /\ \E p \in SegPairs, d \in DateRanges :
        Start([NoCall EXCEPT !.method = "GetVersionStats", !.slug = p[1],
                             !.version = p[2],
                             !.fromDate = d[1], !.toDate = d[2]])

GetProjectPage ==
    /\ pc = "idle"
    /\ \E p \in SegPairs \cup (Segs \X {<<"home">>}) :
        Start([NoCall EXCEPT !.method = "GetProjectPage", !.slug = p[1],
                             !.pagePath = p[2]])

GetProjectMainPage ==
    /\ pc = "idle"
    /\ \E slug \in Segs :
        Start([NoCall EXCEPT !.method = "GetProjectMainPage", !.slug = slug])

GetLatestVersion ==
    /\ pc = "idle"
    /\ \E slug \in Segs, channel \in Channels, platform \in PlatformFilters,
       minecraftVersion \in MinecraftVersions :
        Start([NoCall EXCEPT !.method = "GetLatestVersion", !.slug = slug,
                             !.channel = channel, !.platformFilter = platform,
                             !.minecraftVersion = minecraftVersion])

GetLatestReleaseVersion ==
    /\ pc = "idle"
    /\ \E slug \in Segs :
        Start([NoCall EXCEPT !.method = "GetLatestReleaseVersion", !.slug = slug])

\* ------------------------------------------------------------------------
\* httpClient.Do returns and the method runs to its return statement
\* ------------------------------------------------------------------------
Finish(doErr, payload) ==
    LET r == MethodReturn(call, PlanOf(baseURL, call).msg, doErr, payload)
    IN  /\ result' = r.result
        /\ err' = r.err
        /\ pc' = "done"
        /\ UNCHANGED <<cli, cfg, baseURL, token, httpClient, callers, call, requests>>

\* the transport fails (DNS, connect, client timeout)
DoFails ==
    /\ pc = "inflight"
    /\ ctxErr = ""
    /\ Finish(TransportError("connection refused"), EmptyPayload)
    /\ UNCHANGED <<ctxErr, resp>>

\* the context is done: it was when the call was made, or it is cancelled or
\* expires while the response is awaited
DoCanceled ==
    /\ pc = "inflight"
    /\ \E cause \in CtxErrs :
          /\ ctxErr \in {"", cause}
          /\ ctxErr' = cause
          /\ Finish(TransportError(cause), EmptyPayload)
    /\ UNCHANGED resp

\* a response arrives; reading its body may fail part-way, also because the
\* context is cancelled or expires during the read
DoResponds ==
    /\ pc = "inflight"
    /\ ctxErr = ""
    /\ \E r \in Responses(call.method) :
          /\ resp' = r
          /\ ctxErr' = IF r.readErr \in CtxErrs THEN r.readErr ELSE ""
          /\ Finish(ResponseError(r), r.payload)

\* the caller has the return values; the client is used for the next call
Return ==
    /\ pc = "done"
    /\ pc' = "idle"
    /\ call' = NoCall
    /\ ctxErr' = ""
    /\ requests' = <<>>
    /\ resp' = NoResp
    /\ result' = NilResult
    /\ err' = NoErr
    /\ UNCHANGED <<cli, cfg, baseURL, token, httpClient, callers>>

Next ==
    \/ GetProject
    \/ ListProjects
    \/ ListVersions
    \/ GetDownloadURL
    \/ ListUsers
    \/ GetUser
    \/ GetUserStarred
    \/ GetUserWatching
    \/ GetUserPinned
    \/ ListAuthors
    \/ ListStaff
    \/ GetVersionByID
    \/ GetVersionByHash
    \/ GetProjectMembers
    \/ GetProjectStargazers
    \/ GetProjectWatchers
    \/ GetProjectStats
    \/ GetVersionStats
    \/ GetProjectPage
    \/ GetProjectMainPage
    \/ GetLatestVersion
    \/ GetLatestReleaseVersion
    \/ DoFails
    \/ DoCanceled
    \/ DoResponds
    \/ Return

Spec == Init /\ [][Next]_vars

\* ------------------------------------------------------------------------
\* Construction on its own: NewClient applied to every Config
\* ------------------------------------------------------------------------
InitNewClient ==
    /\ cfg \in Configs
    /\ baseURL = ""
    /\ token = ""
    /\ httpClient = NoHTTPClient
    /\ callers = [i \in Callers |-> IdleCaller]
    /\ pc = "unbuilt"
    /\ call = NoCall
    /\ ctxErr = ""
    /\ requests = <<>>
    /\ resp = NoResp
    /\ result = NilResult
    /\ err = NoErr
    /\ cli = NoCLI

Construct ==
    /\ pc = "unbuilt"
    /\ baseURL' = NewClient(cfg).baseURL
    /\ token' = NewClient(cfg).token
    /\ httpClient' = NewClient(cfg).httpClient
    /\ pc' = "idle"
    /\ UNCHANGED <<cli, cfg, callers, call, ctxErr, requests, resp, result, err>>

NextNewClient == Construct

SpecNewClient == InitNewClient /\ [][NextNewClient]_vars

\* ------------------------------------------------------------------------
\* Concurrent callers: several goroutines call methods of one *Client.  Each
\* call runs the same code as above on its own arguments, context, request
\* and response; the steps of different calls interleave.
\* ------------------------------------------------------------------------
\* the calls the concurrent callers make
ConcurrentCalls ==
    {[NoCall EXCEPT !.method = "GetProject", !.slug = slug] : slug \in {<<>>, <<"a">>, <<"/">>}}
    \cup {WithOpts([NoCall EXCEPT !.method = "ListProjects"],
                   [Limit |-> 0, Offset |-> 0, Category |-> <<>>])}
    \cup {[NoCall EXCEPT !.method = "GetUser", !.username = <<"a">>]}

\* a call up to the point where it blocks in httpClient.Do, or returns a
\* validation error
Started(base, tok, c, e) ==
    LET plan == PlanOf(base, c)
    IN  [pc       |-> IF plan.ok THEN "inflight" ELSE "done",
         call     |-> c,
         ctxErr   |-> e,
         requests |-> IF plan.ok THEN Attempts(NewRequest(plan.url, tok)) ELSE <<>>,
         resp     |-> NoResp,
         result   |-> NilResult,
         err      |-> IF plan.ok THEN NoErr ELSE New(plan.msg)]

\* the call once httpClient.Do has returned r (NoResp: no response) and
\* doRequest has returned doErr
Finished(base, st, e, r, doErr) ==
    LET ret == MethodReturn(st.call, PlanOf(base, st.call).msg, doErr, r.payload)
    IN  [st EXCEPT !.pc = "done", !.ctxErr = e, !.resp = r,
                   !.result = ret.result, !.err = ret.err]

InitConcurrent ==
    /\ cfg \in CallConfigs
    /\ baseURL = NewClient(cfg).baseURL
    /\ token = NewClient(cfg).token
    /\ httpClient = NewClient(cfg).httpClient
    /\ callers = [i \in Callers |-> IdleCaller]
    /\ pc = "idle"
    /\ call = NoCall
    /\ ctxErr = ""
    /\ requests = <<>>
    /\ resp = NoResp
    /\ result = NilResult
    /\ err = NoErr
    /\ cli = NoCLI

\* a method that leaves the URL it requested in the client
CallStartsKeepingURL(i) ==
    /\ callers[i].pc = "idle"
    /\ \E c \in ConcurrentCalls, e \in {""} \cup CtxErrs :
          /\ callers' = [callers EXCEPT ![i] = Started(baseURL, token, c, e)]
          /\ baseURL' = IF PlanOf(baseURL, c).ok THEN baseURL \o "/projects" ELSE baseURL
    /\ UNCHANGED <<cli, cfg, token, httpClient, pc, call, ctxErr, requests, resp, result, err>>

CallStarts(i) ==
    /\ callers[i].pc = "idle"
    /\ \E c \in ConcurrentCalls, e \in {""} \cup CtxErrs :
          callers' = [callers EXCEPT ![i] = Started(baseURL, token, c, e)]
    /\ UNCHANGED <<cli, cfg, baseURL, token, httpClient, pc, call, ctxErr, requests, resp,
                   result, err>>

CallFails(i) ==
    /\ callers[i].pc = "inflight"
    /\ callers[i].ctxErr = ""
    /\ callers' = [callers EXCEPT ![i] =
                      Finished(baseURL, @, "", NoResp, TransportError("connection refused"))]
    /\ UNCHANGED <<cli, cfg, baseURL, token, httpClient, pc, call, ctxErr, requests, resp,
                   result, err>>

CallCanceled(i) ==
    /\ callers[i].pc = "inflight"
    /\ \E cause \in CtxErrs :
          /\ callers[i].ctxErr \in {"", cause}
          /\ callers' = [callers EXCEPT ![i] =
                            Finished(baseURL, @, cause, NoResp, TransportError(cause))]
    /\ UNCHANGED <<cli, cfg, baseURL, token, httpClient, pc, call, ctxErr, requests, resp,
                   result, err>>

CallResponds(i) ==
    /\ callers[i].pc = "inflight"
    /\ callers[i].ctxErr = ""
    /\ \E r \in Responses(callers[i].call.method) :
          callers' = [callers EXCEPT ![i] =
                         Finished(baseURL, @,
                                  IF r.readErr \in CtxErrs THEN r.readErr ELSE "",
                                  r, ResponseError(r))]
    /\ UNCHANGED <<cli, cfg, baseURL, token, httpClient, pc, call, ctxErr, requests, resp,
                   result, err>>

CallReturns(i) ==
    /\ callers[i].pc = "done"
    /\ callers' = [callers EXCEPT ![i] = IdleCaller]
    /\ UNCHANGED <<cli, cfg, baseURL, token, httpClient, pc, call, ctxErr, requests, resp,
                   result, err>>

NextConcurrent ==
    \/ \E i \in Callers : CallStarts(i)
    \/ \E i \in Callers : CallFails(i)
    \/ \E i \in Callers : CallCanceled(i)
    \/ \E i \in Callers : CallResponds(i)
    \/ \E i \in Callers : CallReturns(i)

SpecConcurrent == InitConcurrent /\ [][NextConcurrent]_vars

\* ------------------------------------------------------------------------
\* The hangar command: main (cmd/hangar/main.go), the root command with its
\* settings (internal/cli/root.go) and the subcommands (internal/cli/*.go).
\* cli holds the process: its command line, environment and config files, how
\* far main has got, what it sent and wrote, and the interrupt signal.
\* ------------------------------------------------------------------------
\* a duration as written: digits and a unit ("" when none is written)
NoTimeout == [digits |-> 0, unit |-> ""]

Seconds(n) == [digits |-> n, unit |-> "s"]

\* viper.GetDuration: a text without a unit is a number of nanoseconds
ToDuration(text) == [n |-> text.digits, unit |-> IF text.unit = "" THEN "ns" ELSE text.unit]

\* the value of a setting that a source does not set
Unset(key) == IF key = "timeout" THEN NoTimeout ELSE ""

NoSettings == [base_url |-> "", api_token |-> "", timeout |-> NoTimeout, output |-> ""]

\* the defaults of the persistent flags bound to the viper keys
FlagDefault ==
    [base_url |-> DefaultBaseURL, api_token |-> "", timeout |-> Seconds(DefaultTimeout),
     output |-> "table"]

\* SetEnvPrefix("HANGAR") and AutomaticEnv(): the variable read for a key
EnvName(key) ==
    CASE key = "base_url" -> "HANGAR_BASE_URL"
      [] key = "api_token" -> "HANGAR_API_TOKEN"
      [] key = "timeout" -> "HANGAR_TIMEOUT"
      [] key = "output" -> "HANGAR_OUTPUT"

\* initConfig: the config file viper reads and whether it reads the
\* environment; without --config and without a home directory it returns
\* before either is set up
initConfig(flags, homeOK, files) ==
    IF flags.config # "" THEN [envOn |-> TRUE, file |-> files[flags.config]]
    ELSE IF ~homeOK THEN [envOn |-> FALSE, file |-> NoSettings]
    ELSE [envOn |-> TRUE, file |-> files["home"]]

\* viper's lookup of a key bound to a flag: the flag when given, then the
\* environment, then the config file, then the flag's default
Find(key, flags, env, v) ==
    IF flags[key] # Unset(key) THEN flags[key]
    ELSE IF v.envOn /\ env[EnvName(key)] # Unset(key) THEN env[EnvName(key)]
    ELSE IF v.file[key] # Unset(key) THEN v.file[key]
    ELSE FlagDefault[key]

\* createClient: the Config handed to hangar.NewClient
createClient(flags, env, v) ==
    [BaseURL |-> Find("base_url", flags, env, v),
     Token   |-> Find("api_token", flags, env, v),
     Timeout |-> ToDuration(Find("timeout", flags, env, v))]

\* cmd.Flag("output").Value.String(): the flag as given, or its default
OutputFormat(flags) == IF flags.output # "" THEN flags.output ELSE FlagDefault.output

\* the subcommands: the client methods each calls in order, the message it
\* wraps each call's error in, whether it requires positional arguments, and
\* whether its output switch has the cases json and table only
Cmd(name, calls, wraps, takesArgs, table) ==
    [name |-> name, calls |-> calls, wraps |-> wraps, takesArgs |-> takesArgs,
     table |-> table]

Commands ==
    {Cmd("project get", <<"GetProject">>,
         <<"failed to get project">>, TRUE, TRUE),
     Cmd("project list", <<"ListProjects">>,
         <<"failed to list projects">>, FALSE, TRUE),
     Cmd("project members", <<"GetProjectMembers">>,
         <<"failed to get project members">>, TRUE, TRUE),
     Cmd("project stargazers", <<"GetProjectStargazers">>,
         <<"failed to get project stargazers">>, TRUE, TRUE),
     Cmd("project watchers", <<"GetProjectWatchers">>,
         <<"failed to get project watchers">>, TRUE, TRUE),
     Cmd("project stats", <<"GetProjectStats">>,
         <<"failed to get project stats">>, TRUE, TRUE),
     Cmd("project page", <<"GetProjectPage">>,
         <<"failed to get project page">>, TRUE, FALSE),
     Cmd("project readme", <<"GetProjectMainPage">>,
         <<"failed to get project README">>, TRUE, FALSE),
     Cmd("version download-url", <<"GetProject", "GetDownloadURL">>,
         <<"failed to get project", "failed to get download URL">>, TRUE, FALSE),
     Cmd("version get-by-id", <<"GetVersionByID">>,
         <<"failed to get version">>, TRUE, TRUE),
     Cmd("version find-by-hash", <<"GetVersionByHash">>,
         <<"failed to find version by hash">>, TRUE, TRUE),
     Cmd("version latest", <<"GetLatestVersion">>,
         <<"failed to get latest version">>, TRUE, TRUE),
     Cmd("version stats", <<"GetVersionStats">>,
         <<"failed to get version stats">>, TRUE, TRUE),
     Cmd("user get", <<"GetUser">>,
         <<"failed to get user">>, TRUE, TRUE),
     Cmd("user list", <<"ListUsers">>,
         <<"failed to list users">>, FALSE, TRUE),
     Cmd("user starred", <<"GetUserStarred">>,
         <<"failed to get starred projects">>, TRUE, TRUE),
     Cmd("user watching", <<"GetUserWatching">>,
         <<"failed to get watching projects">>, TRUE, TRUE),
     Cmd("user pinned", <<"GetUserPinned">>,
         <<"failed to get pinned projects">>, TRUE, TRUE),
     Cmd("authors list", <<"ListAuthors">>,
         <<"failed to list authors">>, FALSE, TRUE),
     Cmd("staff list", <<"ListStaff">>,
         <<"failed to list staff">>, FALSE, TRUE)}

Command(name) == CHOOSE c \in Commands : c.name = name

\* a command that asks for the version list alone
CallsDownloadOnly(name) == <<"GetDownloadURL">>

\* the client methods the command calls, in order
Calls(name) == Command(name).calls

\* the arguments of the command's step-th client call: the positional
\* arguments as typed ("empty": the first one is ""), the flags of the
\* subcommand at their defaults, and the owner of the project fetched before
CallOf(name, step, args, owner) ==
    LET first == IF args = "empty" THEN <<>> ELSE <<"a">>
    IN  [NoCall EXCEPT !.method = Calls(name)[step], !.owner = owner, !.slug = first,
                       !.username = first, !.hash = first, !.query = <<>>,
                       !.version = <<"2.0.1">>, !.versionID = 1, !.hasOpts = TRUE,
                       !.opts = [Limit |-> DefaultLimit, Offset |-> 0, Category |-> <<>>]]

\* a switch without the default case that rejects: anything but json is a table
SwitchLenient(name, format) == IF format = "json" THEN "json" ELSE "table"

\* the output switch of a command's RunE: what it prints, or "" when it
\* returns "unsupported output format"
Switch(name, format) ==
    IF format = "json" THEN "json"
    ELSE IF ~Command(name).table THEN "text"
    ELSE IF format = "table" THEN "table"
    ELSE ""

\* a process that exits 0 whatever the command returned
ExitCodeZero(cmdErr) == 0

\* main: os.Exit(1) when cli.Execute returned an error, else return
ExitCode(cmdErr) == IF cmdErr # "" THEN 1 ELSE 0

\* the command returns an error: cobra prints it and the usage on stderr
Fail(c, msg) ==
    [c EXCEPT !.phase = "returned", !.cmdErr = msg, !.stderr = @ \cup {"Error", "Usage"}]

\* the command makes its step-th client call: the method validates its
\* arguments and hands the request to the HTTP client
MakeCall(c, step, owner) ==
    LET plan == PlanOf(c.config.BaseURL, CallOf(c.command, step, c.args, owner))
    IN  IF plan.ok
        THEN [c EXCEPT !.phase = "inflight", !.step = step,
                       !.requests = Append(@, plan.url)]
        ELSE Fail([c EXCEPT !.step = step], plan.msg)

\* the command lines, environments and config files tried
FlagSets ==
    {[config |-> f, base_url |-> s.base_url, api_token |-> s.api_token,
      timeout |-> s.timeout, output |-> o] :
        f \in {"", "alt"}, o \in {"", "json", "yaml"},
        s \in {NoSettings,
               [base_url |-> "http://flag", api_token |-> "flag-token",
                timeout |-> Seconds(5), output |-> ""]}}

EnvNames ==
    {"HANGAR_BASE_URL", "HANGAR_API_BASE_URL", "HANGAR_API_TOKEN", "HANGAR_TIMEOUT",
     "HANGAR_OUTPUT", "HANGAR_OUTPUT_FORMAT", "HANGAR_CONFIG"}

NoEnv == [n \in EnvNames |-> IF n = "HANGAR_TIMEOUT" THEN NoTimeout ELSE ""]

\* nothing set; the variables viper reads; the variables the README lists,
\* with the timeout as a number of seconds; HANGAR_CONFIG alone
Envs ==
    {NoEnv,
     [NoEnv EXCEPT !["HANGAR_BASE_URL"] = "http://env", !["HANGAR_API_TOKEN"] = "env-token",
                   !["HANGAR_TIMEOUT"] = Seconds(60), !["HANGAR_OUTPUT"] = "json"],
     [NoEnv EXCEPT !["HANGAR_API_BASE_URL"] = "http://env",
                   !["HANGAR_API_TOKEN"] = "env-token",
                   !["HANGAR_TIMEOUT"] = [digits |-> 60, unit |-> ""],
                   !["HANGAR_OUTPUT_FORMAT"] = "json", !["HANGAR_CONFIG"] = "alt"],
     [NoEnv EXCEPT !["HANGAR_CONFIG"] = "alt"]}

\* the file at $HOME/.config/hangar/config.yaml (absent or with every key)
\* and the file at another path
Files ==
    {[home |-> h,
      alt  |-> [base_url |-> "http://alt", api_token |-> "alt-token",
                timeout |-> Seconds(45), output |-> "json"]] :
        h \in {NoSettings,
               [base_url |-> "http://file", api_token |-> "file-token",
                timeout |-> Seconds(45), output |-> "json"]}}

NoFlags == [config |-> "", base_url |-> "", api_token |-> "", timeout |-> NoTimeout,
            output |-> ""]

\* the process when main starts
StartCLI(command, args, flags, env, files, homeOK) ==
    [phase |-> "start", command |-> command, args |-> args, flags |-> flags, env |-> env,
     files |-> files, homeOK |-> homeOK,
     config |-> [BaseURL |-> "", Token |-> "", Timeout |-> ToDuration(NoTimeout)],
     step |-> 0, requests |-> <<>>, owner |-> <<>>, cmdErr |-> "",
     aborted |-> FALSE, stdout |-> {}, stderr |-> {}, sig |-> "none", ctxDone |-> FALSE,
     exit |-> -1]

\* every command with every way of typing its arguments and every --output,
\* under no other setting; and project get under every combination of settings
InitCLI ==
    /\ cfg \in {c \in CallConfigs : c.BaseURL = "" /\ c.Token = ""}
    /\ baseURL = NewClient(cfg).baseURL
    /\ token = NewClient(cfg).token
    /\ httpClient = NewClient(cfg).httpClient
    /\ callers = [i \in Callers |-> IdleCaller]
    /\ pc = "idle"
    /\ call = NoCall
    /\ ctxErr = ""
    /\ requests = <<>>
    /\ resp = NoResp
    /\ result = NilResult
    /\ err = NoErr
    /\ \/ \E c \in Commands, o \in {"", "json", "yaml"} :
            \E a \in IF c.takesArgs THEN {"ok", "missing", "empty"} ELSE {"ok"} :
                cli = StartCLI(c.name, a, [NoFlags EXCEPT !.output = o], NoEnv,
                               CHOOSE f \in Files : f.home = NoSettings, TRUE)
       \/ \E f \in FlagSets, e \in Envs, fs \in Files, h \in BOOLEAN :
            cli = StartCLI("project get", "ok", f, e, fs, h)

clientVars == <<cfg, baseURL, token, httpClient, callers, pc, call, ctxErr, requests, resp,
                result, err>>

\* cli.Execute up to the first client call: cobra parses the command line,
\* runs initConfig and checks the arguments, and RunE creates the client and
\* calls the first method
Execute ==
    /\ cli.phase = "start"
    /\ LET c == [cli EXCEPT !.config = createClient(cli.flags, cli.env,
                                initConfig(cli.flags, cli.homeOK, cli.files))]
       IN  cli' = IF cli.args = "missing" THEN Fail(c, "accepts arg(s)")
                  ELSE IF cli.command = "version get-by-id" /\ cli.args = "empty"
                  THEN Fail(c, "invalid version ID")
                  ELSE MakeCall(c, 1, <<>>)
    /\ UNCHANGED clientVars

\* the client call in flight returns an error: transport, status, decode, or
\* for GetDownloadURL no such version or URL
RequestFails ==
    /\ cli.phase = "inflight"
    /\ ~cli.ctxDone
    /\ cli' = Fail(cli, Command(cli.command).wraps[cli.step])
    /\ UNCHANGED clientVars

\* the context is cancelled while the call is in flight: the HTTP client
\* gives up the request and the call returns the context's error
RequestAborted ==
    /\ cli.phase = "inflight"
    /\ cli.ctxDone
    /\ cli' = Fail([cli EXCEPT !.aborted = TRUE], Command(cli.command).wraps[cli.step])
    /\ UNCHANGED clientVars

\* the client call in flight returns its result: the command goes on to its
\* next call, with the owner of the project it got, or to its output
RequestSucceeds ==
    /\ cli.phase = "inflight"
    /\ ~cli.ctxDone
    /\ IF cli.step < Len(Calls(cli.command))
       THEN \E owner \in Owners :
               cli' = MakeCall([cli EXCEPT !.owner = owner], cli.step + 1, owner)
       ELSE cli' = [cli EXCEPT !.phase = "output"]
    /\ UNCHANGED clientVars

\* the output switch of the command
Output ==
    /\ cli.phase = "output"
    /\ LET out == Switch(cli.command, OutputFormat(cli.flags))
       IN  cli' = IF out = "" THEN Fail(cli, "unsupported output format")
                  ELSE [cli EXCEPT !.phase = "returned", !.stdout = @ \cup {out}]
    /\ UNCHANGED clientVars

\* SIGINT or SIGTERM is delivered: signal.Notify puts it in sigChan
SignalArrives ==
    /\ cli.phase \notin {"none", "exited"}
    /\ cli.sig = "none"
    /\ cli' = [cli EXCEPT !.sig = "pending"]
    /\ UNCHANGED clientVars

\* a goroutine that logs the signal and leaves the context alone
SignalLogged ==
    /\ cli.phase \notin {"none", "exited"}
    /\ cli.sig = "pending"
    /\ cli' = [cli EXCEPT !.sig = "handled", !.stderr = @ \cup {"received shutdown signal"}]
    /\ UNCHANGED clientVars

\* the goroutine of main takes the signal from sigChan, logs it and cancels
\* the context
SignalHandled ==
    /\ cli.phase \notin {"none", "exited"}
    /\ cli.sig = "pending"
    /\ cli' = [cli EXCEPT !.sig = "handled", !.ctxDone = TRUE,
                          !.stderr = @ \cup {"received shutdown signal"}]
    /\ UNCHANGED clientVars

\* cli.Execute has returned: main logs the error and exits 1, or returns
Exit ==
    /\ cli.phase = "returned"
    /\ cli' = [cli EXCEPT !.phase = "exited", !.exit = ExitCode(cli.cmdErr),
                          !.stderr = IF cli.cmdErr # "" THEN @ \cup {"command failed"}
                                     ELSE @]
    /\ UNCHANGED clientVars

NextCLI ==
    \/ Execute
    \/ RequestFails
    \/ RequestAborted
    \/ RequestSucceeds
    \/ Output
    \/ SignalArrives
    \/ SignalHandled
    \/ Exit

SpecCLI == InitCLI /\ [][NextCLI]_vars

\* the main goroutine and the signal goroutine keep running, a cancelled
\* request is given up, and the process exits once the command has returned;
\* nothing obliges the server to answer or a signal to arrive
FairCLI ==
    /\ WF_vars(Execute)
    /\ WF_vars(RequestAborted)
    /\ WF_vars(Output)
    /\ WF_vars(SignalHandled)
    /\ WF_vars(Exit)

SpecCLILive == InitCLI /\ [][NextCLI]_vars /\ FairCLI

\* ------------------------------------------------------------------------
\* What the server sees of a request URL (the mock servers of the tests read
\* r.URL.Path and r.URL.Query()): the path is cut at the first "?" or "#",
\* split at "/", and each segment is percent-decoded once.
\* ------------------------------------------------------------------------
RECURSIVE IndexOf(_, _)
IndexOf(s, tok) ==
    IF s = <<>> THEN 0
    ELSE IF Head(s) = tok THEN 1
    ELSE LET i == IndexOf(Tail(s), tok) IN IF i = 0 THEN 0 ELSE i + 1

Before(s, tok) == IF IndexOf(s, tok) = 0 THEN s ELSE SubSeq(s, 1, IndexOf(s, tok) - 1)

After(s, tok) == IF IndexOf(s, tok) = 0 THEN <<>> ELSE SubSeq(s, IndexOf(s, tok) + 1, Len(s))

RECURSIVE SplitOn(_, _)
SplitOn(s, sep) ==
    IF IndexOf(s, sep) = 0 THEN <<s>>
    ELSE <<Before(s, sep)>> \o SplitOn(After(s, sep), sep)

HexPairs == {<<"2", "F">>, <<"3", "F">>, <<"2", "3">>, <<"2", "5">>, <<"2", "0">>,
             <<"2", "6">>, <<"3", "D">>, <<"2", "B">>, <<"3", "A">>}

HexChar(h) ==
    CASE h = <<"2", "F">> -> "/" [] h = <<"3", "F">> -> "?" [] h = <<"2", "3">> -> "#"
      [] h = <<"2", "5">> -> "%" [] h = <<"2", "0">> -> " " [] h = <<"2", "6">> -> "&"
      [] h = <<"3", "D">> -> "=" [] h = <<"2", "B">> -> "+" [] h = <<"3", "A">> -> ":"

RECURSIVE Unescape(_, _)
Unescape(s, plusIsSpace) ==
    IF s = <<>> THEN <<>>
    ELSE IF Head(s) = "%" /\ Len(s) >= 3 /\ SubSeq(s, 2, 3) \in HexPairs
         THEN <<HexChar(SubSeq(s, 2, 3))>> \o Unescape(SubSeq(s, 4, Len(s)), plusIsSpace)
    ELSE IF Head(s) = "+" /\ plusIsSpace
         THEN <<" ">> \o Unescape(Tail(s), plusIsSpace)
    ELSE <<Head(s)>> \o Unescape(Tail(s), plusIsSpace)

\* the URL without its base and without a fragment
ServerTarget(url) == Before(Tail(url), "#")

ServerRawPath(url) == Before(ServerTarget(url), "?")

ServerRawQuery(url) == After(ServerTarget(url), "?")

HasQuery(url) == IndexOf(ServerTarget(url), "?") # 0

\* the decoded path segments, in order
ServerSegments(url) ==
    LET raw == SplitOn(Tail(ServerRawPath(url)), "/")
    IN  [i \in DOMAIN raw |-> Unescape(raw[i], FALSE)]

\* the decoded query parameters: key -> value
ServerQuery(url) ==
    LET pairs == IF ServerRawQuery(url) = <<>> THEN <<>>
                 ELSE SplitOn(ServerRawQuery(url), "&")
    IN  [k \in {Head(pairs[i]) : i \in {j \in DOMAIN pairs : pairs[j] # <<>>}} |->
            LET i == CHOOSE j \in DOMAIN pairs : pairs[j] # <<>> /\ Head(pairs[j]) = k
            IN  Unescape(After(pairs[i], "="), TRUE)]

\* ------------------------------------------------------------------------
\* Properties
\* ------------------------------------------------------------------------
SlugMethods ==
    {"GetProject", "ListVersions", "GetDownloadURL", "GetProjectMembers",
     "GetProjectStargazers", "GetProjectWatchers", "GetProjectStats", "GetVersionStats",
     "GetProjectPage", "GetProjectMainPage", "GetLatestVersion", "GetLatestReleaseVersion"}

OwnerMethods == {"ListVersions", "GetDownloadURL"}

UsernameMethods == {"GetUser", "GetUserStarred", "GetUserWatching", "GetUserPinned"}

VersionNameMethods == {"GetDownloadURL", "GetVersionStats"}

\* a required argument of the call is empty (or the version id is not positive)
MissingArgument(c) ==
    \/ c.method \in SlugMethods /\ c.slug = <<>>
    \/ c.method \in OwnerMethods /\ c.owner = <<>>
    \/ c.method \in UsernameMethods /\ c.username = <<>>
    \/ c.method \in VersionNameMethods /\ c.version = <<>>
    \/ c.method = "GetVersionByHash" /\ c.hash = <<>>
    \/ c.method = "GetVersionByID" /\ c.versionID <= 0

\* the call got a 2xx response whose body was read whole and is a value of the
\* result type
Arrived ==
    /\ pc = "done"
    /\ resp.status >= 200 /\ resp.status <= 299
    /\ resp.valid /\ resp.nread = Len(resp.body)

\* index of the first version named name, 0 if there is none
FirstMatch(versions, name) ==
    IF \E i \in DOMAIN versions : versions[i].Name = name
    THEN CHOOSE i \in DOMAIN versions :
             /\ versions[i].Name = name
             /\ \A j \in 1..(i - 1) : versions[j].Name # name
    ELSE 0

RequestedPlatform == IF call.platform = "" THEN "PAPER" ELSE call.platform

\* C1: GetDownloadURL, an empty platform standing for "PAPER", decides on the
\* (first) version named as requested: its hosted URL for the platform when that
\* is non-empty, also when the external URL is non-empty too; the external URL
\* when only that is non-empty; an error and "" when both are empty or the
\* version has no entry for the platform.
C1_DownloadURLDecision ==
    (Arrived /\ call.method = "GetDownloadURL") =>
        LET vs == resp.payload.versions
            i  == FirstMatch(vs, call.version)
        IN  i # 0 =>
              LET has == RequestedPlatform \in DOMAIN vs[i].Downloads
              IN  IF has /\ vs[i].Downloads[RequestedPlatform].DownloadURL # ""
                  THEN err = NoErr
                       /\ result.str = vs[i].Downloads[RequestedPlatform].DownloadURL
                  ELSE IF has /\ vs[i].Downloads[RequestedPlatform].ExternalURL # ""
                  THEN err = NoErr
                       /\ result.str = vs[i].Downloads[RequestedPlatform].ExternalURL
                  ELSE err # NoErr /\ result.str = ""

\* the default platform is used and the matching version, found after one that
\* does not match, has both URLs: the hosted one is returned
C1_Witness ==
    /\ Arrived /\ call.method = "GetDownloadURL" /\ call.platform = ""
    /\ FirstMatch(resp.payload.versions, call.version) = 2
    /\ "PAPER" \in DOMAIN resp.payload.versions[2].Downloads
    /\ resp.payload.versions[2].Downloads["PAPER"] =
           [DownloadURL |-> "hosted", ExternalURL |-> "external"]
    /\ result.str = "hosted"

\* C2: GetDownloadURL requests exactly one page of versions, limit=100 and
\* offset=0, and when no version of that page is named as requested it fails
\* with "version not found" without any further request, also when the project
\* has more versions than the page holds.
C2_SinglePage ==
    (pc # "idle" /\ call.method = "GetDownloadURL" /\ ~MissingArgument(call)) =>
        /\ Len(requests) = 1
        /\ ServerSegments(requests[1].url) =
               <<<<"projects">>, call.owner, call.slug, <<"versions">>>>
        /\ DOMAIN ServerQuery(requests[1].url) = {"limit", "offset"}
        /\ ServerQuery(requests[1].url)["limit"] = <<"1", "0", "0">>
        /\ ServerQuery(requests[1].url)["offset"] = <<"0">>
        /\ (Arrived /\ FirstMatch(resp.payload.versions, call.version) = 0) =>
               /\ err = Newf("version not found", call.version)
               /\ result = NilResult

\* the requested version is not in the page and the project has 150 versions
C2_Witness ==
    /\ Arrived /\ call.method = "GetDownloadURL"
    /\ resp.payload.versions # <<>>
    /\ FirstMatch(resp.payload.versions, call.version) = 0
    /\ resp.payload.count > DownloadURLLimit
    /\ err.chain = <<"version not found">>
    /\ Len(requests) = 1

\* C3: a call with an empty required argument (or a version id <= 0) returns an
\* error and hands no request to the HTTP client.
C3_ValidationBeforeNetwork ==
    (pc # "idle" /\ MissingArgument(call)) =>
        /\ pc = "done"
        /\ err # NoErr
        /\ result = NilResult
        /\ requests = <<>>
        /\ resp = NoResp

\* GetVersionByID(0) has returned its validation error
C3_Witness ==
    /\ pc = "done" /\ call.method = "GetVersionByID" /\ call.versionID = 0
    /\ err = New("versionID must be positive")
    /\ requests = <<>>

C5_CancellationCarried ==
    /\ (pc = "done" /\ ~MissingArgument(call) /\ ctxErr # "") => err.cause = ctxErr
    /\ (pc = "done" /\ err # NoErr) => Len(requests) <= 1

\* C6 (as claimed): a response outside 200..299 fails the call with an error
\* that embeds the status code and the response body, and nothing is decoded.
C6_StatusAndWholeBody ==
    (pc = "done" /\ resp # NoResp /\ (resp.status < 200 \/ resp.status > 299)) =>
        /\ err.status = resp.status
        /\ err.body = resp.body
        /\ result = NilResult

\* C6 (amended): a response outside 200..299 fails the call with an error that
\* embeds the status code and as much of the body as could be read (the whole
\* body when the read succeeds); the body is never decoded into the result.
C6_StatusAndReadBody ==
    (pc = "done" /\ resp # NoResp /\ (resp.status < 200 \/ resp.status > 299)) =>
        /\ err # NoErr
        /\ err.chain[Len(err.chain)] = "API request failed with status"
        /\ err.status = resp.status
        /\ err.body = SubSeq(resp.body, 1, resp.nread)
        /\ resp.readErr = "" => err.body = resp.body
        /\ result = NilResult

\* a 404 whose body would decode as the result type: the error carries 404 and
\* the body, the result is nil
C6_Witness ==
    /\ pc = "done" /\ resp.status = 404 /\ resp.valid /\ resp.readErr = ""
    /\ resp.body # <<>>
    /\ err.status = 404 /\ err.body = resp.body
    /\ result = NilResult

LimitText(limit) ==
    CASE limit = -1 -> <<"-", "1">>
      [] limit = 0 -> <<"2", "5">>
      [] limit = 100 -> <<"1", "0", "0">>

OffsetText(offset) ==
    CASE offset = 0 -> <<"0">>
      [] offset = 12 -> <<"1", "2">>

C8_Headers ==
    \A i \in DOMAIN requests :
        /\ requests[i].method = "GET"
        /\ "Accept" \in DOMAIN requests[i].header
        /\ requests[i].header["Accept"] = <<"application/json">>
        /\ ("Authorization" \in DOMAIN requests[i].header) <=> (token # "")
        /\ token # "" => requests[i].header["Authorization"] = <<"Bearer ", token>>

\* a request of a client with a token is in flight with the bearer header
C8_Witness ==
    /\ pc = "inflight" /\ token = "test-token-12345"
    /\ requests[1].header["Authorization"] = <<"Bearer ", "test-token-12345">>

\* the path segments a call addresses: the fixed words of its endpoint and the
\* caller's values, each one segment
ExpectedSegments(c) ==
    CASE c.method = "GetProject" -> <<<<"projects">>, c.slug>>
      [] c.method = "ListProjects" -> <<<<"projects">>>>
      [] c.method \in {"ListVersions", "GetDownloadURL"} ->
             <<<<"projects">>, c.owner, c.slug, <<"versions">>>>
      [] c.method = "ListUsers" -> <<<<"users">>>>
      [] c.method = "GetUser" -> <<<<"users">>, c.username>>
      [] c.method = "GetUserStarred" -> <<<<"users">>, c.username, <<"starred">>>>
      [] c.method = "GetUserWatching" -> <<<<"users">>, c.username, <<"watching">>>>
      [] c.method = "GetUserPinned" -> <<<<"users">>, c.username, <<"pinned">>>>
      [] c.method = "ListAuthors" -> <<<<"authors">>>>
      [] c.method = "ListStaff" -> <<<<"staff">>>>
      [] c.method = "GetVersionByID" ->
             <<<<"versions">>, IF c.versionID = 1 THEN <<"1">> ELSE <<"4", "2">>>>
      [] c.method = "GetVersionByHash" -> <<<<"versions">>, <<"find">>, c.hash>>
      [] c.method = "GetProjectMembers" -> <<<<"projects">>, c.slug, <<"members">>>>
      [] c.method = "GetProjectStargazers" -> <<<<"projects">>, c.slug, <<"stargazers">>>>
      [] c.method = "GetProjectWatchers" -> <<<<"projects">>, c.slug, <<"watchers">>>>
      [] c.method = "GetProjectStats" -> <<<<"projects">>, c.slug, <<"stats">>>>
      [] c.method = "GetVersionStats" ->
             <<<<"projects">>, c.slug, <<"versions">>, c.version, <<"stats">>>>
      [] c.method = "GetProjectPage" ->
             <<<<"projects">>, c.slug, <<"pages">>,
               IF c.pagePath = <<>> THEN <<"home">> ELSE c.pagePath>>
      [] c.method = "GetProjectMainPage" -> <<<<"projects">>, c.slug, <<"pages">>, <<"home">>>>
      [] c.method \in {"GetLatestVersion", "GetLatestReleaseVersion"} ->
             <<<<"projects">>, c.slug, <<"latest">>>>

Filters(c) ==
    CASE c.method = "ListProjects" -> [k \in {"category"} |-> c.opts.Category]
      [] c.method = "ListUsers" -> [k \in {"query"} |-> c.query]
      [] c.method \in {"GetProjectStats", "GetVersionStats"} ->
             [k \in {"fromDate", "toDate"} |->
                 IF k = "fromDate" THEN c.fromDate ELSE c.toDate]
      [] c.method = "GetLatestVersion" ->
             [k \in {"channel", "platform", "platformVersion"} |->
                 IF k = "channel" THEN c.channel
                 ELSE IF k = "platform" THEN c.platformFilter
                 ELSE c.minecraftVersion]
      [] OTHER -> NoParams

\* C10: an optional filter (category, query, channel, platform,
\* minecraftVersion, fromDate, toDate) is in the query string exactly when its
\* value is non-empty, no parameter is ever sent with an empty value, and a
\* stats or latest-version call with no non-empty filter has no query string.
C10_OptionalFilters ==
    (pc # "idle" /\ ~MissingArgument(call)) =>
        LET url == requests[1].url
            q   == ServerQuery(url)
            f   == Filters(call)
        IN  /\ \A k \in DOMAIN f : (k \in DOMAIN q) <=> (f[k] # <<>>)
            /\ \A k \in DOMAIN q : q[k] # <<>>
            /\ \A k \in DOMAIN q : k \in DOMAIN f \/ k \in {"limit", "offset"}
                                   \/ call.method = "GetLatestReleaseVersion"
            /\ (/\ call.method \in {"GetProjectStats", "GetVersionStats", "GetLatestVersion"}
                /\ \A k \in DOMAIN f : f[k] = <<>>)
               => ~HasQuery(url)

\* a latest-version call with only the channel set sends only channel=...; and
\* one with no filter at all has no query string
C10_Witness ==
    /\ pc = "inflight" /\ call.method = "GetLatestVersion"
    /\ call.channel = <<"Beta">> /\ call.platformFilter = <<>>
    /\ call.minecraftVersion = <<>>
    /\ ServerRawQuery(requests[1].url) = <<"channel", "=", "Beta">>

\* ------------------------------------------------------------------------
\* C11
\* ------------------------------------------------------------------------
\* C11 (as claimed): NewClient substitutes the default base URL for an empty
\* BaseURL and the default timeout for a zero Timeout, whatever the
\* configuration, and sends nothing.
C11_DefaultsAlways ==
    pc = "idle" =>
        /\ baseURL = (IF cfg.BaseURL = "" THEN DefaultBaseURL ELSE cfg.BaseURL)
        /\ cfg.Timeout = 0 => httpClient.Timeout = DefaultTimeout
        /\ requests = <<>>

\* C11 (amended): NewClient substitutes the default base URL for an empty
\* BaseURL; when no HTTP client is injected it builds one whose timeout is
\* Config.Timeout, or the default when that is zero; an injected HTTP client
\* is used as it is, its own timeout untouched and Config.Timeout ignored.
\* Construction sends nothing.
C11_DefaultsUnlessInjected ==
    pc = "idle" =>
        /\ baseURL # ""
        /\ baseURL = (IF cfg.BaseURL = "" THEN DefaultBaseURL ELSE cfg.BaseURL)
        /\ token = cfg.Token
        /\ ~httpClient.nil
        /\ cfg.HTTPClient.nil =>
               httpClient.Timeout = (IF cfg.Timeout = 0 THEN DefaultTimeout
                                     ELSE cfg.Timeout)
        /\ ~cfg.HTTPClient.nil => httpClient = cfg.HTTPClient
        /\ requests = <<>>

\* a Config with a zero Timeout and the caller's own HTTP client (timeout 7s)
\* has been turned into a client: default base URL, the caller's HTTP client
C11_Witness ==
    /\ pc = "idle"
    /\ cfg.BaseURL = "" /\ cfg.Timeout = 0
    /\ ~cfg.HTTPClient.nil /\ cfg.HTTPClient.Timeout = 7
    /\ baseURL = DefaultBaseURL
    /\ httpClient.Timeout = 7

\* ------------------------------------------------------------------------
\* C12
\* ------------------------------------------------------------------------
\* what doRequest returned to a call that is done
DoErrOf(st) ==
    IF st.resp # NoResp THEN ResponseError(st.resp)
    ELSE TransportError(IF st.ctxErr # "" THEN st.ctxErr ELSE "connection refused")

\* the call st as it would be had it run alone on the client NewClient built:
\* same arguments, same context, same server behaviour
Alone(st) ==
    LET built   == NewClient(cfg)
        started == Started(built.baseURL, built.token, st.call, st.ctxErr)
    IN  IF st.pc = "inflight" \/ ~PlanOf(built.baseURL, st.call).ok THEN started
        ELSE Finished(built.baseURL, [started EXCEPT !.ctxErr = ""], st.ctxErr, st.resp,
                      DoErrOf(st))

C14_TwoStepStats ==
    (/\ pc = "done" /\ err = NoErr
     /\ call.method \in {"GetProjectStats", "GetVersionStats"}) =>
        /\ Len(requests) = 2
        /\ ServerSegments(requests[1].url) = <<<<"projects">>, call.slug>>
        /\ LET segs == ServerSegments(requests[2].url)
               q    == ServerQuery(requests[2].url)
           IN  /\ Len(segs) >= 4
               /\ segs[1] = <<"projects">> /\ segs[3] = call.slug
               /\ segs[Len(segs)] = <<"stats">>
               /\ call.fromDate # <<>> =>
                      q["fromDate"] = call.fromDate \o <<"T00", ":", "00", ":", "00Z">>
               /\ call.toDate # <<>> =>
                      q["toDate"] = call.toDate \o <<"T23", ":", "59", ":", "59Z">>

\* ------------------------------------------------------------------------
\* C15
\* ------------------------------------------------------------------------
\* C15 (as claimed): a page lookup answered 2xx with a body that is raw text,
\* not a JSON value of the result type, succeeds and returns a Page.
C15_RawTextPage ==
    (/\ pc = "done" /\ call.method \in {"GetProjectPage", "GetProjectMainPage"}
     /\ resp # NoResp /\ Is2xx(resp.status)
     /\ resp.readErr = "" /\ resp.body # <<>> /\ ~resp.valid) =>
        /\ err = NoErr
        /\ ~result.nil

\* ------------------------------------------------------------------------
\* C16
\* ------------------------------------------------------------------------
\* C16 (as claimed): a latest-version lookup that succeeds has made two
\* requests, the first to /projects/{slug}/latest and the second to
\* /projects/{slug}/versions/{name}.
C16_TwoStepLatest ==
    (/\ pc = "done" /\ err = NoErr
     /\ call.method \in {"GetLatestVersion", "GetLatestReleaseVersion"}) =>
        /\ Len(requests) = 2
        /\ ServerSegments(requests[1].url) = <<<<"projects">>, call.slug, <<"latest">>>>
        /\ LET segs == ServerSegments(requests[2].url)
           IN  /\ Len(segs) = 4
               /\ SubSeq(segs, 1, 3) = <<<<"projects">>, call.slug, <<"versions">>>>

\* ------------------------------------------------------------------------
\* C17
\* ------------------------------------------------------------------------
\* the call in progress, as a record
Current ==
    [pc |-> pc, call |-> call, ctxErr |-> ctxErr, requests |-> requests,
     resp |-> resp, result |-> result, err |-> err]

\* the call c made instead of the call in progress: same client, same
\* context, same server behaviour
Instead(c) == Alone([Current EXCEPT !.call = c])

C19_ListVerbatim ==
    (/\ pc = "done" /\ err = NoErr /\ call.method \in PaginatedMethods
     /\ resp.payload # EmptyPayload) =>
        LET list == result.payload
            json == resp.payload
        IN  /\ ~result.nil
            /\ list.Pagination.Count = json.pagination.count
            /\ list.Pagination.Limit = json.pagination.limit
            /\ list.Pagination.Offset = json.pagination.offset
            /\ Len(list.Result) = Len(json.result)
            /\ \A i \in DOMAIN json.result : list.Result[i] = json.result[i]

\* ListProjects asked for limit=100&offset=0 and was answered with a page of
\* limit 10 and offset 5 whose items are y, x: the result says 150/10/5 and y, x
C19_Witness ==
    /\ pc = "done" /\ err = NoErr /\ call.method = "ListProjects"
    /\ call.opts.Limit = 100 /\ call.opts.Offset = 0
    /\ resp.payload # EmptyPayload
    /\ result.payload.Pagination = [Count |-> 150, Limit |-> 10, Offset |-> 5]
    /\ result.payload.Result = <<"y", "x">>

C21_NoErrorSwallowed ==
    (pc = "done" /\ resp # NoResp) =>
        /\ resp.readErr # "" => err.cause = resp.readErr
        /\ resp.closeErr # "" => err # NoErr

Usable(v, platform) ==
    /\ platform \in DOMAIN v.Downloads
    /\ (v.Downloads[platform].DownloadURL # "" \/ v.Downloads[platform].ExternalURL # "")

\* C27: when the first version of the page named as requested has no usable
\* URL for the platform, GetDownloadURL fails with "no download URL found for
\* platform" and returns "", whatever the later entries of the page are, also
\* when a later version of the same name has a usable URL for the platform.
C27_FirstMatchDecides ==
    (Arrived /\ call.method = "GetDownloadURL") =>
        LET vs == resp.payload.versions
            i  == FirstMatch(vs, call.version)
        IN  (i # 0 /\ ~Usable(vs[i], RequestedPlatform)) =>
                /\ err # NoErr
                /\ err.chain = <<"no download URL found for platform">>
                /\ result.str = ""
                /\ Len(requests) = 1

\* the page has two versions named as requested: the first has a PAPER entry
\* with no URL, the second a hosted URL for PAPER, and the call has failed
C27_Witness ==
    /\ Arrived /\ call.method = "GetDownloadURL"
    /\ Len(resp.payload.versions) = 2
    /\ resp.payload.versions[1].Name = call.version
    /\ resp.payload.versions[2].Name = call.version
    /\ RequestedPlatform = "PAPER"
    /\ "PAPER" \in DOMAIN resp.payload.versions[1].Downloads
    /\ ~Usable(resp.payload.versions[1], "PAPER")
    /\ Usable(resp.payload.versions[2], "PAPER")
    /\ err # NoErr /\ result.str = ""

\* ------------------------------------------------------------------------
\* C28
\* ------------------------------------------------------------------------
\* C28 (as claimed): a finished call has a non-nil result exactly when its
\* error is nil.
C28_ResultXorError ==
    pc = "done" => ((err = NoErr) <=> (result # NilResult))

\* C28, the part the code keeps: a finished call with a non-nil error has the
\* nil result ("" for GetDownloadURL), and the only calls that return nil with
\* a nil error are ListStaff, GetProjectStats and GetVersionStats answered 2xx
\* with the JSON value null.
C28_NilOnErrorOnly ==
    pc = "done" =>
        /\ err # NoErr => result = NilResult
        /\ err = NoErr =>
              (result = NilResult <=>
                  /\ call.method \in {"ListStaff", "GetProjectStats", "GetVersionStats"}
                  /\ resp.payload = [null |-> TRUE])

\* GetProjectStats was answered 200 with the body null and has returned a nil
\* map and a nil error
C28_Witness ==
    /\ pc = "done" /\ call.method = "GetProjectStats"
    /\ resp.status = 200 /\ resp.payload = [null |-> TRUE]
    /\ err = NoErr /\ result = NilResult

\* ------------------------------------------------------------------------
\* C23
\* ------------------------------------------------------------------------
\* C23: the process exits with 1 when the command returned an error (wrong
\* arguments, a failed client call, an unsupported output format) and with 0
\* when it returned none; an error is written to standard error, and
\* standard output holds nothing but the command's rendered result.
C23_ExitCode ==
    /\ (cli.phase \notin {"none", "exited"}) => cli.exit = -1
    /\ cli.phase = "exited" =>
          /\ cli.cmdErr # "" =>
                (cli.exit = 1 /\ {"Error", "command failed"} \subseteq cli.stderr)
          /\ cli.cmdErr = "" => (cli.exit = 0 /\ "Error" \notin cli.stderr)
          /\ cli.stdout \subseteq {"json", "table", "text"}
          /\ cli.cmdErr # "" => cli.stdout = {}

\* staff list --output yaml has exited with 1 after an output-format error
\* written to standard error
C23_Witness ==
    /\ cli.phase = "exited" /\ cli.command = "staff list"
    /\ cli.cmdErr = "unsupported output format"
    /\ cli.exit = 1 /\ "Error" \in cli.stderr /\ cli.stdout = {}

\* ------------------------------------------------------------------------
\* C24
\* ------------------------------------------------------------------------
\* the config file in effect: the one --config names, else the one in the
\* home directory when there is a home directory
ConfigFile ==
    IF cli.flags.config # "" THEN cli.files[cli.flags.config]
    ELSE IF cli.homeOK THEN cli.files["home"]
    ELSE NoSettings

\* flag, then HANGAR_<KEY>, then config file, then default
ByPrecedence(key) ==
    IF cli.flags[key] # Unset(key) THEN cli.flags[key]
    ELSE IF cli.env[EnvName(key)] # Unset(key) THEN cli.env[EnvName(key)]
    ELSE IF ConfigFile[key] # Unset(key) THEN ConfigFile[key]
    ELSE FlagDefault[key]

\* the process has built its client and has not yet rendered anything
Configured == cli.phase \in {"inflight", "output"}

\* C24 (as claimed): the base URL, the token and the timeout the client is
\* built with, and the output format the command renders in, are each the
\* value of the highest of flag, HANGAR_* variable, config file and default
\* that sets it.
C24_Precedence ==
    Configured =>
        /\ cli.config.BaseURL = ByPrecedence("base_url")
        /\ cli.config.Token = ByPrecedence("api_token")
        /\ cli.config.Timeout = ToDuration(ByPrecedence("timeout"))
        /\ OutputFormat(cli.flags) = ByPrecedence("output")

\* ------------------------------------------------------------------------
\* C25
\* ------------------------------------------------------------------------
\* C25 (as claimed): with no flag for the setting, HANGAR_API_TOKEN is the
\* token, HANGAR_API_BASE_URL the base URL, HANGAR_OUTPUT_FORMAT the output
\* format, HANGAR_TIMEOUT (seconds) the timeout of the client, and
\* HANGAR_CONFIG the config file whose settings are used.
C25_ReadmeVariables ==
    Configured =>
        /\ (cli.flags.api_token = "" /\ cli.env["HANGAR_API_TOKEN"] # "") =>
               cli.config.Token = cli.env["HANGAR_API_TOKEN"]
        /\ (cli.flags.base_url = "" /\ cli.env["HANGAR_API_BASE_URL"] # "") =>
               cli.config.BaseURL = cli.env["HANGAR_API_BASE_URL"]
        /\ (cli.flags.output = "" /\ cli.env["HANGAR_OUTPUT_FORMAT"] # "") =>
               OutputFormat(cli.flags) = cli.env["HANGAR_OUTPUT_FORMAT"]
        /\ (cli.flags.timeout = NoTimeout /\ cli.env["HANGAR_TIMEOUT"] # NoTimeout) =>
               cli.config.Timeout = [n |-> cli.env["HANGAR_TIMEOUT"].digits, unit |-> "s"]
        /\ (/\ cli.flags.config = "" /\ cli.env["HANGAR_CONFIG"] # ""
            /\ cli.flags.base_url = "" /\ cli.env["HANGAR_BASE_URL"] = ""
            /\ cli.env["HANGAR_API_BASE_URL"] = "") =>
               cli.config.BaseURL = cli.files[cli.env["HANGAR_CONFIG"]].base_url

\* ------------------------------------------------------------------------
\* C26
\* ------------------------------------------------------------------------
\* the command is running: cli.Execute has not returned
Running == cli.phase \in {"start", "inflight", "output"}

\* C26 (as claimed): a signal received while the command is running leads to
\* the process exiting with 1.
C26_SignalExitsOne == (Running /\ cli.sig # "none") ~> (cli.exit = 1)

\* C26 (amended): the context is cancelled exactly when the signal goroutine
\* has handled a signal; once it has, a command that has still a client call
\* to make or in flight has that call aborted without a further request,
\* returns an error, and the process eventually exits with 1; a signal that
\* arrives or is handled after the last client call returned, or after the
\* command returned, changes neither the command's error nor the exit code,
\* and the exit code never changes once set.
C26_CancelAbortsCall ==
    /\ [](cli.phase # "none" => (cli.ctxDone <=> cli.sig = "handled"))
    /\ (cli.sig = "handled" /\ cli.phase \in {"start", "inflight"}) ~> (cli.exit = 1)
    /\ [][/\ (cli.ctxDone /\ cli.phase = "inflight" /\ cli'.phase # cli.phase) =>
               /\ cli'.phase = "returned" /\ cli'.cmdErr # "" /\ cli'.aborted
               /\ cli'.requests = cli.requests
          /\ (cli.phase \in {"output", "returned"} /\ cli'.sig # cli.sig) =>
               /\ cli'.phase = cli.phase /\ cli'.cmdErr = cli.cmdErr
               /\ cli'.exit = cli.exit
          /\ (cli.phase = "returned" /\ cli'.phase # cli.phase) =>
               cli'.exit = IF cli.cmdErr # "" THEN 1 ELSE 0
          /\ cli.phase = "exited" => cli' = cli]_vars

\* a signal was handled while GetProject was in flight: the call was aborted
\* and the process has exited with 1 after that one request
C26_Witness ==
    /\ cli.phase = "exited" /\ cli.command = "project get"
    /\ cli.sig = "handled" /\ cli.ctxDone /\ cli.aborted
    /\ Len(cli.requests) = 1 /\ cli.cmdErr = "failed to get project"
    /\ cli.exit = 1

\* ------------------------------------------------------------------------
\* C29
\* ------------------------------------------------------------------------
\* C29: version download-url with a slug and a version first requests the
\* project, and only when that call has succeeded requests the version list
\* (limit 100, offset 0) under the owner of the project's namespace; it makes
\* no third request, and none for the version list when GetProject failed.
C29_ProjectThenVersions ==
    (cli.phase \notin {"none", "start"} /\ cli.command = "version download-url"
     /\ cli.args = "ok") =>
        /\ Len(cli.requests) \in {1, 2}
        /\ ServerSegments(cli.requests[1]) = <<<<"projects">>, <<"a">>>>
        /\ Len(cli.requests) = 2 =>
              /\ cli.step = 2
              /\ ServerSegments(cli.requests[2]) =
                     <<<<"projects">>, cli.owner, <<"a">>, <<"versions">>>>
              /\ ServerQuery(cli.requests[2])["limit"] = <<"1", "0", "0">>
        /\ cli.step = 1 => Len(cli.requests) = 1
        /\ (cli.step = 1 /\ cli.phase \in {"returned", "exited"}) =>
               cli.cmdErr = "failed to get project"

\* version download-url has made both requests and printed the URL
C29_Witness ==
    /\ cli.phase = "exited" /\ cli.command = "version download-url"
    /\ Len(cli.requests) = 2 /\ cli.owner = <<"a">>
    /\ cli.cmdErr = "" /\ cli.stdout = {"text"} /\ cli.exit = 0

\* ------------------------------------------------------------------------
\* C30
\* ------------------------------------------------------------------------
TableCommands ==
    {"project get", "project list", "project members", "project stargazers",
     "project watchers", "project stats", "version get-by-id", "version find-by-hash",
     "version latest", "version stats", "user get", "user list", "user starred",
     "user watching", "user pinned", "authors list", "staff list"}

\* C30: a table command given an --output other than table or json returns
\* an error and prints nothing, and that error is "unsupported output format"
\* only once all its client requests have been made; version download-url,
\* project page and project readme never return that error and print plain
\* text for any --output other than json.
C30_OutputCheckedLast ==
    (cli.phase \in {"returned", "exited"}) =>
        LET format == IF cli.flags.output = "" THEN "table" ELSE cli.flags.output
        IN  /\ (cli.command \in TableCommands /\ format \notin {"table", "json"}) =>
                   (cli.cmdErr # "" /\ cli.stdout = {})
            /\ cli.cmdErr = "unsupported output format" =>
                   /\ cli.command \in TableCommands
                   /\ format \notin {"table", "json"}
                   /\ Len(cli.requests) = Len(Command(cli.command).calls)
                   /\ ~cli.aborted
            /\ (cli.command \in {"version download-url", "project page", "project readme"}
                /\ cli.cmdErr = "") =>
                   cli.stdout = {IF format = "json" THEN "json" ELSE "text"}
            /\ (cli.command \in TableCommands /\ cli.cmdErr = "") => cli.stdout = {format}

\* project get --output yaml has made its request and then failed on the
\* output format
C30_Witness ==
    /\ cli.phase = "returned" /\ cli.command = "project get"
    /\ cli.flags.output = "yaml" /\ Len(cli.requests) = 1
    /\ cli.cmdErr = "unsupported output format" /\ cli.stdout = {}

====
